---- MODULE Spec2Model ----
(***************************************************************************)
(* Model of velox/exec/SetAccumulator.h: the per-group accumulator of the  *)
(* set aggregates (set_agg, array_agg(distinct)), in its three             *)
(* instantiations: SetAccumulator<T> for fixed-width values,               *)
(* StringViewSetAccumulator and ComplexTypeSetAccumulator.                 *)
(*                                                                         *)
(* An accumulator is a record.  Every method is an operator from the       *)
(* accumulator (and the method's arguments) to the accumulator after the   *)
(* call; the actions at the end apply the methods to the state.            *)
(***************************************************************************)
EXTENDS Integers, Sequences, FiniteSets, TLC

(***************************************************************************)
(* Bounds of the model.                                                    *)
(***************************************************************************)
\* Number of input rows fed to one accumulator (addValue and addValues).
MaxAdds == 5
\* Number of child rows of the array cell handed to addValues.
MaxArray == 2
\* Largest offset handed to extractValues.
MaxOffset == 1
\* Number of spill / reload cycles of one group.
MaxReloads == 1

(***************************************************************************)
(* Constants of the program.                                               *)
(***************************************************************************)
kNoNullIndex == -1
\* sizeof(vector_size_t), vector_size_t = int32_t
kSizeOfVector == 4
\* sizeof(T), with T = int64_t for the fixed-width instantiation
kSizeOfValue == 8
\* sizeof(size_t)
kSizeOfSize == 8
\* sizeof(uint64_t)
kSizeOfHash == 8
\* StringView::kInlineSize: strings of at most this size live in the view.
kInlineSize == 12

(***************************************************************************)
(* Value categories (SetAccumulatorTypeTraits) and the input rows.         *)
(***************************************************************************)
Categories == {"scalar", "string", "complex"}

ScalarValues == {3, 5}
\* Two inline strings and two that need backing storage.
StringValues == {"abc", "xyz", "a_string_of_20_bytes", "another_of_19_bytes"}
\* Serialized bytes of nested values, as the nested-value codec produces
\* them.  "[1]" and "[2]" have the same hash (see HashOf).
ComplexValues == {"[1]", "[2]", "[1,2]"}

ValuesOf(c) ==
    CASE c = "scalar" -> ScalarValues
      [] c = "string" -> StringValues
      [] c = "complex" -> ComplexValues

DefaultOf(c) == IF c = "scalar" THEN 0 ELSE ""

\* One row of a DecodedVector: null, or a value of the category.
NullRow(c) == [isNull |-> TRUE, value |-> DefaultOf(c)]
RowsOf(c) == {NullRow(c)} \cup {[isNull |-> FALSE, value |-> v] : v \in ValuesOf(c)}

\* DecodedVector::isNullAt / valueAt, rows numbered from 0.
isNullAt(decoded, index) == decoded[index + 1].isNull
valueAt(decoded, index) == decoded[index + 1].value

(***************************************************************************)
(* std::optional<vector_size_t>: the empty set or a singleton.             *)
(***************************************************************************)
nullopt == {}
has_value(o) == o # {}
optValue(o) == CHOOSE x \in o : TRUE

(***************************************************************************)
(* folly::F14FastMap<T, int32_t, Hash, EqualTo>: a function from keys to   *)
(* ordinals.  A lookup finds a stored key with the same hash that EqualTo  *)
(* accepts; each instantiation has its own (contains, String_contains,     *)
(* Complex_contains).                                                      *)
(***************************************************************************)
EmptyMap == [k \in {} |-> 0]
mapSize(m) == Cardinality(DOMAIN m)

\* insert({k, o}), 'present' being the outcome of the lookup of k: keeps the
\* stored entry when the key is present; .second tells whether the entry
\* was inserted.
insert(m, k, o, present) ==
    IF present
    THEN [map |-> m, second |-> FALSE]
    ELSE [map |-> [x \in DOMAIN m \cup {k} |-> IF x = k THEN o ELSE m[x]],
          second |-> TRUE]

\* Lookup with std::hash<T> / std::equal_to<T> of a fixed-width value.
contains(m, k) == k \in DOMAIN m

(***************************************************************************)
(* SetAccumulator<T>  (fixed-width values)                                 *)
(***************************************************************************)
\* Constructor: no null, empty map.
SetAccumulator == [nullIndex |-> nullopt, uniqueValues |-> EmptyMap]

\* Mutant of addValue: the ordinal of a new value ignores the null's slot.
addValue_noNullShift(a, decoded, index) ==
    LET cnt == mapSize(a.uniqueValues) IN
    IF isNullAt(decoded, index)
    THEN IF ~has_value(a.nullIndex)
         THEN [a EXCEPT !.nullIndex = {cnt}]
         ELSE a
    ELSE [a EXCEPT !.uniqueValues =
            insert(@, valueAt(decoded, index), cnt,
                   contains(@, valueAt(decoded, index))).map]

addValue(a, decoded, index) ==
    LET cnt == mapSize(a.uniqueValues) IN
    IF isNullAt(decoded, index)
    THEN IF ~has_value(a.nullIndex)
         THEN [a EXCEPT !.nullIndex = {cnt}]
         ELSE a
    ELSE [a EXCEPT !.uniqueValues =
            insert(@, valueAt(decoded, index),
                   IF has_value(a.nullIndex) THEN cnt + 1 ELSE cnt,
                   contains(@, valueAt(decoded, index))).map]

RECURSIVE addValuesLoop(_, _, _, _, _)
addValuesLoop(a, decoded, offset, arraySize, i) ==
    IF i < arraySize
    THEN addValuesLoop(addValue(a, decoded, offset + i), decoded, offset, arraySize, i + 1)
    ELSE a

\* Mutant of addValues: reads the child rows from row 0, not from the
\* cell's offset.
addValues_noOffset(a, arrayRow, decoded) ==
    addValuesLoop(a, decoded, 0, arrayRow.size, 0)

\* arrayVector is the row's [offset, size] into the child vector 'decoded'.
addValues(a, arrayRow, decoded) ==
    addValuesLoop(a, decoded, arrayRow.offset, arrayRow.size, 0)

size(a) == mapSize(a.uniqueValues) + (IF has_value(a.nullIndex) THEN 1 ELSE 0)

isNullIndex(a, i) == has_value(a.nullIndex) /\ i = optValue(a.nullIndex)

nullIndexSerializationValue(a) ==
    IF has_value(a.nullIndex) THEN optValue(a.nullIndex) ELSE kNoNullIndex

(***************************************************************************)
(* Byte buffers.  A buffer is written by a sequence of writes              *)
(* [offset, size, data] (memcpy, OutputByteStream); the serialized cell    *)
(* StringView(rawBuffer, totalBytes) shows, at each offset, the data of    *)
(* the last write that started there.  common::InputByteStream reads the   *)
(* cell front to back.                                                     *)
(***************************************************************************)
Write(offset, nbytes, data) == [offset |-> offset, size |-> nbytes, data |-> data]

InBounds(w, totalBytes) == w.offset >= 0 /\ w.offset + w.size <= totalBytes

Mem(writes, totalBytes) ==
    LET kept == {i \in DOMAIN writes : InBounds(writes[i], totalBytes)}
        last(off) == CHOOSE i \in kept :
                        /\ writes[i].offset = off
                        /\ \A j \in kept : writes[j].offset = off => j <= i
    IN [off \in {writes[i].offset : i \in kept} |-> writes[last(off)].data]

\* flatResult->setNoCopy(index, StringView(rawBuffer, totalBytes))
Cell(writes, totalBytes) == [size |-> totalBytes, mem |-> Mem(writes, totalBytes)]

\* InputByteStream(serialized.data()); a read of bytes no write initialized
\* yields 'garbage'.
InputByteStream(serialized, garbage) ==
    [mem |-> serialized.mem, offset |-> 0, garbage |-> garbage]
streamPeek(stream) ==
    IF stream.offset \in DOMAIN stream.mem
    THEN stream.mem[stream.offset]
    ELSE stream.garbage
streamSkip(stream, nbytes) == [stream EXCEPT !.offset = @ + nbytes]

\* The orders in which a range-for may visit the entries of the map.
IterationOrders(m) ==
    {o \in [1..mapSize(m) -> DOMAIN m] : \A i, j \in DOMAIN o : o[i] = o[j] => i = j}

(***************************************************************************)
(* SetAccumulator<T>: extractValues, serialize, deserialize                *)
(***************************************************************************)
\* Mutant of extractValues: the null is marked at nullIndex, without the
\* offset.
extractValues_nullNoOffset(a, offset, order) ==
    [writes |->
        [i \in DOMAIN order |->
            [position |-> offset + a.uniqueValues[order[i]],
             isNull |-> FALSE, value |-> order[i]]]
        \o (IF has_value(a.nullIndex)
            THEN <<[position |-> optValue(a.nullIndex),
                    isNull |-> TRUE, value |-> 0]>>
            ELSE <<>>),
     result |-> IF has_value(a.nullIndex)
                THEN mapSize(a.uniqueValues) + 1
                ELSE mapSize(a.uniqueValues)]

\* The writes into the destination vector, in program order, and the
\* returned count.  'order' is the map's iteration order.
extractValues(a, offset, order) ==
    [writes |->
        [i \in DOMAIN order |->
            [position |-> offset + a.uniqueValues[order[i]],
             isNull |-> FALSE, value |-> order[i]]]
        \o (IF has_value(a.nullIndex)
            THEN <<[position |-> offset + optValue(a.nullIndex),
                    isNull |-> TRUE, value |-> 0]>>
            ELSE <<>>),
     result |-> IF has_value(a.nullIndex)
                THEN mapSize(a.uniqueValues) + 1
                ELSE mapSize(a.uniqueValues)]

\* Mutant of slotOf: the null's ordinal is not skipped.
slotOf_noShift(index, nullPosition) == index

\* The slot of the value with ordinal 'index' (line 166).
slotOf(index, nullPosition) == IF index < nullPosition THEN index ELSE index - 1

\* Mutant of serialize: without a null, the null position is 0 instead of
\* the out-of-range uniqueValues.size().
serialize_nullPositionZero(a, order) ==
    LET totalBytes == kSizeOfVector + kSizeOfSize + kSizeOfValue * mapSize(a.uniqueValues)
        nullIndexValue == nullIndexSerializationValue(a)
        numValues == mapSize(a.uniqueValues)
        nullPosition == IF has_value(a.nullIndex) THEN optValue(a.nullIndex) ELSE 0
        valueWrite(key) ==
            LET index == a.uniqueValues[key]
                offset == (kSizeOfVector + kSizeOfSize)
                            + slotOf(index, nullPosition) * kSizeOfValue
            IN Write(offset, kSizeOfValue, key)
        writes == <<Write(0, kSizeOfVector, nullIndexValue),
                    Write(kSizeOfVector, kSizeOfSize, numValues)>>
                  \o [i \in DOMAIN order |-> valueWrite(order[i])]
    IN [totalBytes |-> totalBytes, writes |-> writes, cell |-> Cell(writes, totalBytes)]

serialize(a, order) ==
    LET totalBytes == kSizeOfVector + kSizeOfSize + kSizeOfValue * mapSize(a.uniqueValues)
        nullIndexValue == nullIndexSerializationValue(a)
        numValues == mapSize(a.uniqueValues)
        nullPosition == IF has_value(a.nullIndex)
                        THEN optValue(a.nullIndex)
                        ELSE mapSize(a.uniqueValues)
        valueWrite(key) ==
            LET index == a.uniqueValues[key]
                offset == (kSizeOfVector + kSizeOfSize)
                            + slotOf(index, nullPosition) * kSizeOfValue
            IN Write(offset, kSizeOfValue, key)
        writes == <<Write(0, kSizeOfVector, nullIndexValue),
                    Write(kSizeOfVector, kSizeOfSize, numValues)>>
                  \o [i \in DOMAIN order |-> valueWrite(order[i])]
    IN [totalBytes |-> totalBytes, writes |-> writes, cell |-> Cell(writes, totalBytes)]

\* Mutant of deserializeNullIndex: the null index of the cell is read and
\* dropped.
deserializeNullIndex_dropNull(a, stream) ==
    IF has_value(a.nullIndex)
    THEN [acc |-> a, threw |-> TRUE, stream |-> stream]
    ELSE [acc |-> a, threw |-> FALSE, stream |-> streamSkip(stream, kSizeOfVector)]

\* Mutant of deserializeNullIndex: a null index that is set is overwritten.
deserializeNullIndex_overwrite(a, stream) ==
    LET streamNullIndex == streamPeek(stream) IN
    [acc |-> IF streamNullIndex # kNoNullIndex
             THEN [a EXCEPT !.nullIndex = {streamNullIndex}]
             ELSE a,
     threw |-> FALSE,
     stream |-> streamSkip(stream, kSizeOfVector)]

\* VELOX_CHECK(!nullIndex.has_value()): 'threw' when the check fails.
deserializeNullIndex(a, stream) ==
    IF has_value(a.nullIndex)
    THEN [acc |-> a, threw |-> TRUE, stream |-> stream]
    ELSE LET streamNullIndex == streamPeek(stream) IN
         [acc |-> IF streamNullIndex # kNoNullIndex
                  THEN [a EXCEPT !.nullIndex = {streamNullIndex}]
                  ELSE a,
          threw |-> FALSE,
          stream |-> streamSkip(stream, kSizeOfVector)]

RECURSIVE deserializeLoop(_, _, _, _)
deserializeLoop(a, stream, numAllValues, i) ==
    IF i < numAllValues
    THEN IF ~isNullIndex(a, i)
         THEN deserializeLoop(
                [a EXCEPT !.uniqueValues =
                    insert(@, streamPeek(stream), i,
                           contains(@, streamPeek(stream))).map],
                streamSkip(stream, kSizeOfValue), numAllValues, i + 1)
         ELSE deserializeLoop(a, stream, numAllValues, i + 1)
    ELSE [acc |-> a, threw |-> FALSE, failedAt |-> "none",
          offset |-> stream.offset,
          tuples |-> (stream.offset - (kSizeOfVector + kSizeOfSize)) \div kSizeOfValue]

\* Mutant of deserialize: the loop runs over the declared count, without
\* the ordinal of the null.
deserialize_noNullSlot(a, serialized, garbage) ==
    LET hdr == deserializeNullIndex(a, InputByteStream(serialized, garbage)) IN
    IF hdr.threw
    THEN [acc |-> hdr.acc, threw |-> TRUE, failedAt |-> "nullIndex",
          offset |-> hdr.stream.offset, tuples |-> 0]
    ELSE LET numValues == streamPeek(hdr.stream)
         IN deserializeLoop(hdr.acc, streamSkip(hdr.stream, kSizeOfSize),
                            numValues, 0)

\* The result names the check that failed: "nullIndex" (line 179), "unique"
\* (line 320), "count" (lines 261 and 403), or "none".
deserialize(a, serialized, garbage) ==
    LET hdr == deserializeNullIndex(a, InputByteStream(serialized, garbage)) IN
    IF hdr.threw
    THEN [acc |-> hdr.acc, threw |-> TRUE, failedAt |-> "nullIndex",
          offset |-> hdr.stream.offset, tuples |-> 0]
    ELSE LET numValues == streamPeek(hdr.stream)
             numAllValues == IF has_value(hdr.acc.nullIndex)
                             THEN numValues + 1
                             ELSE numValues
         IN deserializeLoop(hdr.acc, streamSkip(hdr.stream, kSizeOfSize),
                            numAllValues, 0)

(***************************************************************************)
(* Output streams: common::OutputByteStream and SerializationStream both   *)
(* append at a running offset.                                             *)
(***************************************************************************)
OutputByteStream == [writes |-> <<>>, offset |-> 0]
streamAppend(stream, data, nbytes) ==
    [writes |-> Append(stream.writes, Write(stream.offset, nbytes, data)),
     offset |-> stream.offset + nbytes]

(***************************************************************************)
(* StringView and the string store (velox/exec/Strings.h).  A view is      *)
(* inline (its bytes live in the view), or points into the string store    *)
(* (at entry 'pos'), or into the buffer it was made from: the caller's     *)
(* input column or the serialized cell ("input").                          *)
(***************************************************************************)
StringView(bytes, owner) ==
    [size |-> Len(bytes),
     owner |-> IF Len(bytes) <= kInlineSize THEN "inline" ELSE owner,
     pos |-> 0,
     bytes |-> bytes]
isInline(view) == view.owner = "inline"

\* The bytes a view shows.
viewData(strings, view) ==
    IF view.owner = "strings" THEN strings[view.pos] ELSE view.bytes

\* Strings::append: copies the bytes into the store, returns a view of the copy.
Strings_append(strings, bytes) ==
    [strings |-> Append(strings, bytes),
     view |-> [size |-> Len(bytes), owner |-> "strings",
               pos |-> Len(strings) + 1, bytes |-> ""]]

(***************************************************************************)
(* StringViewSetAccumulator                                                *)
(***************************************************************************)
StringViewSetAccumulator ==
    [base |-> SetAccumulator,
     strings |-> <<>>,
     stringSetBytes |-> kSizeOfVector + kSizeOfSize]

\* base.uniqueValues.contains(value): StringView hash and equality are by
\* content.
String_contains(a, strings, view) ==
    \E x \in DOMAIN a.base.uniqueValues :
        viewData(strings, x) = viewData(strings, view)

\* Mutant of String_addUniqueValue: the view is stored as it came, without
\* a copy of its bytes.
String_addUniqueValue_noCopy(a, view, index) ==
    IF String_contains(a, a.strings, view)
    THEN [acc |-> a, threw |-> TRUE]
    ELSE [acc |-> [base |-> [a.base EXCEPT !.uniqueValues =
                                insert(@, view, index,
                                       String_contains(a, a.strings, view)).map],
                   strings |-> a.strings,
                   stringSetBytes |->
                       a.stringSetBytes + 2 * kSizeOfVector + view.size],
          threw |-> FALSE]

\* Mutant of String_addUniqueValue: the bytes of the tuple's index and
\* length fields are not counted.
String_addUniqueValue_noOverhead(a, view, index) ==
    IF String_contains(a, a.strings, view)
    THEN [acc |-> a, threw |-> TRUE]
    ELSE LET app == Strings_append(a.strings, viewData(a.strings, view))
             valueCopy == IF ~isInline(view) THEN app.view ELSE view
             strings1 == IF ~isInline(view) THEN app.strings ELSE a.strings
         IN [acc |-> [base |-> [a.base EXCEPT !.uniqueValues =
                                   insert(@, valueCopy, index,
                                          String_contains(a, strings1, valueCopy)).map],
                      strings |-> strings1,
                      stringSetBytes |-> a.stringSetBytes + valueCopy.size],
             threw |-> FALSE]

\* VELOX_CHECK(!base.uniqueValues.contains(value)): 'threw' when it fails.
String_addUniqueValue(a, view, index) ==
    IF String_contains(a, a.strings, view)
    THEN [acc |-> a, threw |-> TRUE]
    ELSE LET app == Strings_append(a.strings, viewData(a.strings, view))
             valueCopy == IF ~isInline(view) THEN app.view ELSE view
             strings1 == IF ~isInline(view) THEN app.strings ELSE a.strings
         IN [acc |-> [base |-> [a.base EXCEPT !.uniqueValues =
                                   insert(@, valueCopy, index,
                                          String_contains(a, strings1, valueCopy)).map],
                      strings |-> strings1,
                      stringSetBytes |->
                          a.stringSetBytes + 2 * kSizeOfVector + valueCopy.size],
             threw |-> FALSE]

\* private addValue(const StringView&, index, allocator)
String_addValueView(a, view, index) ==
    IF String_contains(a, a.strings, view)
    THEN [acc |-> a, threw |-> FALSE]
    ELSE String_addUniqueValue(a, view, index)

\* Mutant of String_addValue: the ordinal of a new string ignores the
\* null's slot.
String_addValue_cntOnly(a, decoded, index) ==
    LET cnt == mapSize(a.base.uniqueValues) IN
    IF isNullAt(decoded, index)
    THEN [acc |-> IF ~has_value(a.base.nullIndex)
                  THEN [a EXCEPT !.base.nullIndex = {cnt}]
                  ELSE a,
          threw |-> FALSE]
    ELSE String_addValueView(a, StringView(valueAt(decoded, index), "input"), cnt)

String_addValue(a, decoded, index) ==
    LET cnt == mapSize(a.base.uniqueValues) IN
    IF isNullAt(decoded, index)
    THEN [acc |-> IF ~has_value(a.base.nullIndex)
                  THEN [a EXCEPT !.base.nullIndex = {cnt}]
                  ELSE a,
          threw |-> FALSE]
    ELSE String_addValueView(
            a, StringView(valueAt(decoded, index), "input"),
            IF has_value(a.base.nullIndex) THEN cnt + 1 ELSE cnt)

RECURSIVE String_addValuesLoop(_, _, _, _, _)
String_addValuesLoop(a, decoded, offset, arraySize, i) ==
    IF i < arraySize
    THEN LET r == String_addValue(a, decoded, offset + i) IN
         IF r.threw
         THEN r
         ELSE String_addValuesLoop(r.acc, decoded, offset, arraySize, i + 1)
    ELSE [acc |-> a, threw |-> FALSE]

String_addValues(a, arrayRow, decoded) ==
    String_addValuesLoop(a, decoded, arrayRow.offset, arrayRow.size, 0)

String_size(a) == size(a.base)

\* base.extractValues; FlatVector<StringView>::set stores the viewed bytes.
String_extractValues(a, offset, order) ==
    LET r == extractValues(a.base, offset, order) IN
    [writes |-> [i \in DOMAIN r.writes |->
                    IF r.writes[i].isNull
                    THEN [r.writes[i] EXCEPT !.value = ""]
                    ELSE [r.writes[i] EXCEPT !.value = viewData(a.strings, @)]],
     result |-> r.result]

RECURSIVE String_serializeLoop(_, _, _, _)
String_serializeLoop(a, stream, order, i) ==
    IF i <= Len(order)
    THEN LET key == order[i]
             length == key.size
             s1 == streamAppend(stream, a.base.uniqueValues[key], kSizeOfVector)
             s2 == streamAppend(s1, length, kSizeOfVector)
             s3 == streamAppend(s2, viewData(a.strings, key), length)
         IN String_serializeLoop(a, s3, order, i + 1)
    ELSE stream

String_serialize(a, order) ==
    LET s1 == streamAppend(OutputByteStream, nullIndexSerializationValue(a.base),
                           kSizeOfVector)
        s2 == streamAppend(s1, mapSize(a.base.uniqueValues), kSizeOfSize)
        s3 == String_serializeLoop(a, s2, order, 1)
    IN [totalBytes |-> a.stringSetBytes,
        writes |-> s3.writes,
        cell |-> Cell(s3.writes, a.stringSetBytes)]

RECURSIVE String_deserializeLoop(_, _, _, _)
String_deserializeLoop(a, stream, cellSize, tuples) ==
    IF stream.offset < cellSize
    THEN LET index == streamPeek(stream)
             s1 == streamSkip(stream, kSizeOfVector)
             length == streamPeek(s1)
             s2 == streamSkip(s1, kSizeOfVector)
             bytes == streamPeek(s2)
             s3 == streamSkip(s2, length)
             r == String_addUniqueValue(a, StringView(bytes, "input"), index)
         IN IF r.threw
            THEN [acc |-> r.acc, threw |-> TRUE, failedAt |-> "unique",
                  offset |-> s3.offset, tuples |-> tuples + 1]
            ELSE String_deserializeLoop(r.acc, s3, cellSize, tuples + 1)
    ELSE [acc |-> a, threw |-> FALSE, failedAt |-> "none",
          offset |-> stream.offset, tuples |-> tuples]

\* Mutant of String_deserialize: the declared count is compared with
\* size(), which counts the null.
String_deserialize_countsNull(a, serialized) ==
    LET hdr == deserializeNullIndex(a.base, InputByteStream(serialized, 0)) IN
    IF hdr.threw
    THEN [acc |-> a, threw |-> TRUE, failedAt |-> "nullIndex",
          offset |-> hdr.stream.offset, tuples |-> 0]
    ELSE LET numValues == streamPeek(hdr.stream)
             r == String_deserializeLoop(
                    [a EXCEPT !.base = hdr.acc],
                    streamSkip(hdr.stream, kSizeOfSize), serialized.size, 0)
         IN IF r.threw
            THEN r
            ELSE IF numValues # size(r.acc.base)
                 THEN [r EXCEPT !.threw = TRUE, !.failedAt = "count"]
                 ELSE r

String_deserialize(a, serialized) ==
    LET hdr == deserializeNullIndex(a.base, InputByteStream(serialized, 0)) IN
    IF hdr.threw
    THEN [acc |-> a, threw |-> TRUE, failedAt |-> "nullIndex",
          offset |-> hdr.stream.offset, tuples |-> 0]
    ELSE LET numValues == streamPeek(hdr.stream)
             r == String_deserializeLoop(
                    [a EXCEPT !.base = hdr.acc],
                    streamSkip(hdr.stream, kSizeOfSize), serialized.size, 0)
         IN IF r.threw
            THEN r
            ELSE IF numValues # mapSize(r.acc.base.uniqueValues)
                 THEN [r EXCEPT !.threw = TRUE, !.failedAt = "count"]
                 ELSE r

(***************************************************************************)
(* AddressableNonNullValueList (velox/exec/AddressableNonNullValueList.h): *)
(* the append-only content store.  'values' is the sequence of stored      *)
(* entries' bytes; an Entry is a handle {position, size, hash}.            *)
(***************************************************************************)
\* The digest of the bytes; distinct contents may share it.
HashOf(bytes) == Len(bytes)

\* append(decoded, index, allocator): serializes the row at the end.
List_append(values, bytes) ==
    [values |-> Append(values, bytes),
     entry |-> [position |-> Len(values) + 1, size |-> Len(bytes),
                hash |-> HashOf(bytes)]]

\* appendSerialized(contents, allocator): returns the position only.
List_appendSerialized(values, bytes) ==
    [values |-> Append(values, bytes), position |-> Len(values) + 1]

\* removeLast(entry): drops the entry at the end of the store.
List_removeLast(values, entry) == SubSeq(values, 1, Len(values) - 1)

\* read / readSerialized: the bytes the handle refers to.
List_read(values, entry) == values[entry.position]

\* AddressableNonNullValueList::Hash and ::EqualTo
EntryHash(entry) == entry.hash
EntryEqualTo(values, e1, e2) == List_read(values, e1) = List_read(values, e2)

\* Lookup of an entry among the keys of the map.
Complex_contains(m, values, entry) ==
    \E x \in DOMAIN m :
        EntryHash(x) = EntryHash(entry) /\ EntryEqualTo(values, x, entry)

(***************************************************************************)
(* ComplexTypeSetAccumulator                                               *)
(***************************************************************************)
ComplexTypeSetAccumulator ==
    [base |-> SetAccumulator,
     values |-> <<>>,
     totalSize |-> kSizeOfVector + kSizeOfSize]

\* Mutant of Complex_addEntry: a rejected duplicate is counted in totalSize
\* all the same.
Complex_addEntry_countsDuplicate(a, entry, index) ==
    LET ins == insert(a.base.uniqueValues, entry, index,
                      Complex_contains(a.base.uniqueValues, a.values, entry))
    IN IF ~ins.second
       THEN [a EXCEPT !.values = List_removeLast(a.values, entry),
                      !.totalSize = @ + 2 * kSizeOfVector + kSizeOfHash + entry.size]
       ELSE [a EXCEPT !.base.uniqueValues = ins.map,
                      !.totalSize = @ + 2 * kSizeOfVector + kSizeOfHash + entry.size]

\* Mutant of Complex_addEntry: the bytes of the tuple's hash field are not
\* counted.
Complex_addEntry_noHash(a, entry, index) ==
    LET ins == insert(a.base.uniqueValues, entry, index,
                      Complex_contains(a.base.uniqueValues, a.values, entry))
    IN IF ~ins.second
       THEN [a EXCEPT !.values = List_removeLast(a.values, entry)]
       ELSE [a EXCEPT !.base.uniqueValues = ins.map,
                      !.totalSize = @ + 2 * kSizeOfVector + entry.size]

\* Mutant of Complex_addEntry: a rejected duplicate stays in the store.
Complex_addEntry_noRollback(a, entry, index) ==
    LET ins == insert(a.base.uniqueValues, entry, index,
                      Complex_contains(a.base.uniqueValues, a.values, entry))
    IN IF ~ins.second
       THEN a
       ELSE [a EXCEPT !.base.uniqueValues = ins.map,
                      !.totalSize = @ + 2 * kSizeOfVector + kSizeOfHash + entry.size]

\* 'a.values' already holds the bytes of 'entry'.
Complex_addEntry(a, entry, index) ==
    LET ins == insert(a.base.uniqueValues, entry, index,
                      Complex_contains(a.base.uniqueValues, a.values, entry))
    IN IF ~ins.second
       THEN [a EXCEPT !.values = List_removeLast(a.values, entry)]
       ELSE [a EXCEPT !.base.uniqueValues = ins.map,
                      !.totalSize = @ + 2 * kSizeOfVector + kSizeOfHash + entry.size]

\* Mutant of Complex_addValue: every null sets nullIndex again.
Complex_addValue_resetNull(a, decoded, index) ==
    LET cnt == mapSize(a.base.uniqueValues) IN
    IF isNullAt(decoded, index)
    THEN [a EXCEPT !.base.nullIndex = {cnt}]
    ELSE LET app == List_append(a.values, valueAt(decoded, index))
             position == IF has_value(a.base.nullIndex) THEN cnt + 1 ELSE cnt
         IN Complex_addEntry([a EXCEPT !.values = app.values], app.entry, position)

Complex_addValue(a, decoded, index) ==
    LET cnt == mapSize(a.base.uniqueValues) IN
    IF isNullAt(decoded, index)
    THEN IF ~has_value(a.base.nullIndex)
         THEN [a EXCEPT !.base.nullIndex = {cnt}]
         ELSE a
    ELSE LET app == List_append(a.values, valueAt(decoded, index))
             position == IF has_value(a.base.nullIndex) THEN cnt + 1 ELSE cnt
         IN Complex_addEntry([a EXCEPT !.values = app.values], app.entry, position)

RECURSIVE Complex_addValuesLoop(_, _, _, _, _)
Complex_addValuesLoop(a, decoded, offset, arraySize, i) ==
    IF i < arraySize
    THEN Complex_addValuesLoop(Complex_addValue(a, decoded, offset + i),
                               decoded, offset, arraySize, i + 1)
    ELSE a

Complex_addValues(a, arrayRow, decoded) ==
    Complex_addValuesLoop(a, decoded, arrayRow.offset, arrayRow.size, 0)

Complex_size(a) == size(a.base)

Complex_extractValues(a, offset, order) ==
    [writes |->
        [i \in DOMAIN order |->
            [position |-> offset + a.base.uniqueValues[order[i]],
             isNull |-> FALSE, value |-> List_read(a.values, order[i])]]
        \o (IF has_value(a.base.nullIndex)
            THEN <<[position |-> offset + optValue(a.base.nullIndex),
                    isNull |-> TRUE, value |-> ""]>>
            ELSE <<>>),
     result |-> mapSize(a.base.uniqueValues)
                    + (IF has_value(a.base.nullIndex) THEN 1 ELSE 0)]

\* SerializationStream::append: VELOX_CHECK_LE(offset + size, totalSize).
SerializationStream(totalSize) == [writes |-> <<>>, offset |-> 0,
                                   totalSize |-> totalSize, threw |-> FALSE]
Ser_append(stream, data, nbytes) ==
    IF stream.threw \/ stream.offset + nbytes > stream.totalSize
    THEN [stream EXCEPT !.threw = TRUE]
    ELSE [stream EXCEPT !.writes = Append(@, Write(stream.offset, nbytes, data)),
                        !.offset = @ + nbytes]

RECURSIVE Complex_serializeLoop(_, _, _, _)
Complex_serializeLoop(a, stream, order, i) ==
    IF i <= Len(order) /\ ~stream.threw
    THEN LET key == order[i]
             s1 == Ser_append(stream, a.base.uniqueValues[key], kSizeOfVector)
             s2 == Ser_append(s1, key.size, kSizeOfVector)
             s3 == Ser_append(s2, key.hash, kSizeOfHash)
             s4 == Ser_append(s3, List_read(a.values, key), key.size)
         IN Complex_serializeLoop(a, s4, order, i + 1)
    ELSE stream

Complex_serialize(a, order) ==
    LET s1 == Ser_append(SerializationStream(a.totalSize),
                         nullIndexSerializationValue(a.base), kSizeOfVector)
        s2 == Ser_append(s1, mapSize(a.base.uniqueValues), kSizeOfSize)
        s3 == Complex_serializeLoop(a, s2, order, 1)
    IN [totalBytes |-> a.totalSize,
        writes |-> s3.writes,
        cell |-> Cell(s3.writes, a.totalSize),
        offset |-> s3.offset,
        threw |-> s3.threw]

RECURSIVE Complex_deserializeLoop(_, _, _, _)
Complex_deserializeLoop(a, stream, cellSize, tuples) ==
    IF stream.offset < cellSize
    THEN LET index == streamPeek(stream)
             s1 == streamSkip(stream, kSizeOfVector)
             length == streamPeek(s1)
             s2 == streamSkip(s1, kSizeOfVector)
             hash == streamPeek(s2)
             s3 == streamSkip(s2, kSizeOfHash)
             contents == streamPeek(s3)
             s4 == streamSkip(s3, length)
             app == List_appendSerialized(a.values, contents)
             entry == [position |-> app.position, size |-> Len(contents),
                       hash |-> hash]
         IN Complex_deserializeLoop(
                Complex_addEntry([a EXCEPT !.values = app.values], entry, index),
                s4, cellSize, tuples + 1)
    ELSE [acc |-> a, threw |-> FALSE, failedAt |-> "none",
          offset |-> stream.offset, tuples |-> tuples]

\* Mutant of Complex_deserialize: the declared count is not checked.
Complex_deserialize_noCountCheck(a, serialized) ==
    LET hdr == deserializeNullIndex(a.base, InputByteStream(serialized, 0)) IN
    IF hdr.threw
    THEN [acc |-> a, threw |-> TRUE, failedAt |-> "nullIndex",
          offset |-> hdr.stream.offset, tuples |-> 0]
    ELSE Complex_deserializeLoop(
            [a EXCEPT !.base = hdr.acc],
            streamSkip(hdr.stream, kSizeOfSize), serialized.size, 0)

Complex_deserialize(a, serialized) ==
    LET hdr == deserializeNullIndex(a.base, InputByteStream(serialized, 0)) IN
    IF hdr.threw
    THEN [acc |-> a, threw |-> TRUE, failedAt |-> "nullIndex",
          offset |-> hdr.stream.offset, tuples |-> 0]
    ELSE LET numValues == streamPeek(hdr.stream)
             r == Complex_deserializeLoop(
                    [a EXCEPT !.base = hdr.acc],
                    streamSkip(hdr.stream, kSizeOfSize), serialized.size, 0)
         IN IF numValues # mapSize(r.acc.base.uniqueValues)
            THEN [r EXCEPT !.threw = TRUE, !.failedAt = "count"]
            ELSE r

(***************************************************************************)
(* SetAccumulatorTypeTraits: the accumulator type of each category.        *)
(***************************************************************************)
FreshOf(c) ==
    CASE c = "scalar" -> SetAccumulator
      [] c = "string" -> StringViewSetAccumulator
      [] c = "complex" -> ComplexTypeSetAccumulator

\* The SetAccumulator<T> inside the accumulator.
BaseOf(c, a) == IF c = "scalar" THEN a ELSE a.base

AddValueOf(c, a, decoded, index) ==
    CASE c = "scalar" -> [acc |-> addValue(a, decoded, index), threw |-> FALSE]
      [] c = "string" -> String_addValue(a, decoded, index)
      [] c = "complex" -> [acc |-> Complex_addValue(a, decoded, index), threw |-> FALSE]

AddValuesOf(c, a, arrayRow, decoded) ==
    CASE c = "scalar" -> [acc |-> addValues(a, arrayRow, decoded), threw |-> FALSE]
      [] c = "string" -> String_addValues(a, arrayRow, decoded)
      [] c = "complex" -> [acc |-> Complex_addValues(a, arrayRow, decoded),
                           threw |-> FALSE]

ExtractValuesOf(c, a, offset, order) ==
    CASE c = "scalar" -> extractValues(a, offset, order)
      [] c = "string" -> String_extractValues(a, offset, order)
      [] c = "complex" -> Complex_extractValues(a, offset, order)

SerializeOf(c, a, order) ==
    CASE c = "scalar" -> serialize(a, order) @@ [threw |-> FALSE]
      [] c = "string" -> String_serialize(a, order) @@ [threw |-> FALSE]
      [] c = "complex" -> Complex_serialize(a, order)

DeserializeOf(c, a, serialized, garbage) ==
    CASE c = "scalar" -> deserialize(a, serialized, garbage)
      [] c = "string" -> String_deserialize(a, serialized)
      [] c = "complex" -> Complex_deserialize(a, serialized)

\* What an uninitialized fixed-width slot may hold.
GarbageOf(c) == IF c = "scalar" THEN ScalarValues ELSE {0}

(***************************************************************************)
(* State.                                                                  *)
(*   cat     the category the accumulator was instantiated for             *)
(*   acc     the group's accumulator                                       *)
(*   threw   a VELOX_CHECK of the last operation failed                    *)
(*   inputs  the rows fed so far, in order (history)                       *)
(*   op      the last operation: its name, the rows it fed, its output     *)
(*   prev    the accumulator the last operation was called on (history)    *)
(*   reloads number of deserialize calls so far                            *)
(*   reads   number of extractValues and serialize calls since the         *)
(*           accumulator was constructed or last written (history)         *)
(***************************************************************************)
VARIABLES cat, acc, threw, inputs, op, prev, reloads, reads

vars == <<cat, acc, threw, inputs, op, prev, reloads, reads>>

NoOutput == [none |-> TRUE]

Init ==
    /\ cat \in Categories
    /\ acc = FreshOf(cat)
    /\ threw = FALSE
    /\ inputs = <<>>
    /\ op = [name |-> "construct", rows |-> <<>>, out |-> NoOutput]
    /\ prev = FreshOf(cat)
    /\ reloads = 0
    /\ reads = 0

\* The caller runs the next operation unless a check failed.  extractValues
\* and serialize leave the accumulator as it is, so what follows them is
\* what follows the state they were called in; only deserialize, which
\* consumes the serialized cell, is taken from there.
Ready == ~threw /\ op.name \notin {"extractValues", "serialize"}

\* addValue(decoded, index, allocator) on one input row.
AddRow(row) ==
    LET r == AddValueOf(cat, acc, <<row>>, 0) IN
    /\ acc' = r.acc
    /\ threw' = r.threw
    /\ inputs' = Append(inputs, row)
    /\ op' = [name |-> "addValue", rows |-> <<row>>, out |-> NoOutput]
    /\ prev' = acc
    /\ reads' = 0
    /\ UNCHANGED <<cat, reloads>>

AddValue ==
    /\ Ready
    /\ Len(inputs) < MaxAdds
    /\ \E row \in RowsOf(cat) : AddRow(row)

\* The array cells of at most MaxArray rows.
ArrayCells(c) == UNION {[1..n -> RowsOf(c)] : n \in 0..MaxArray}

\* The child vector around an array cell: 'offset' rows of the cells before
\* it, the cell's rows, a row of the cell after it.
ChildVector(c, offset, cell) ==
    [i \in 1..offset |-> NullRow(c)] \o cell \o <<NullRow(c)>>

\* addValues(arrayVector, index, values, allocator): the array cell is rows
\* offset .. offset + size - 1 of the child vector.
AddValues ==
    /\ Ready
    /\ \E cell \in ArrayCells(cat) :
         \E offset \in 0..MaxOffset :
            LET arrayRow == [offset |-> offset, size |-> Len(cell)]
                r == AddValuesOf(cat, acc, arrayRow, ChildVector(cat, offset, cell))
            IN /\ Len(inputs) + Len(cell) <= MaxAdds
               /\ acc' = r.acc
               /\ threw' = r.threw
               /\ inputs' = inputs \o cell
               /\ op' = [name |-> "addValues", rows |-> cell, out |-> NoOutput]
    /\ prev' = acc
    /\ reads' = 0
    /\ UNCHANGED <<cat, reloads>>

\* The call extractValues(values, offset).
ExtractValuesCall ==
    /\ \E offset \in 0..MaxOffset :
         \E order \in IterationOrders(BaseOf(cat, acc).uniqueValues) :
            op' = [name |-> "extractValues", rows |-> <<>>,
                   out |-> ExtractValuesOf(cat, acc, offset, order)
                            @@ [offset |-> offset]]
    /\ prev' = acc
    /\ reads' = reads + 1
    /\ UNCHANGED <<cat, acc, threw, inputs, reloads>>

\* extractValues(values, offset) at the end of the group's life, or for an
\* intermediate result.
ExtractValues ==
    /\ Ready
    /\ ExtractValuesCall

\* Mutant of SerializeCall: the accumulator is emptied once it is spilled.
SerializeCall_clears ==
    /\ \E order \in IterationOrders(BaseOf(cat, acc).uniqueValues) :
         LET r == SerializeOf(cat, acc, order) IN
         /\ op' = [name |-> "serialize", rows |-> <<>>, out |-> r]
         /\ threw' = r.threw
    /\ prev' = acc
    /\ reads' = reads + 1
    /\ acc' = FreshOf(cat)
    /\ UNCHANGED <<cat, inputs, reloads>>

\* The call serialize(result, index).
SerializeCall ==
    /\ \E order \in IterationOrders(BaseOf(cat, acc).uniqueValues) :
         LET r == SerializeOf(cat, acc, order) IN
         /\ op' = [name |-> "serialize", rows |-> <<>>, out |-> r]
         /\ threw' = r.threw
    /\ prev' = acc
    /\ reads' = reads + 1
    /\ UNCHANGED <<cat, acc, inputs, reloads>>

\* serialize(result, index) when the group is spilled.
Serialize ==
    /\ Ready
    /\ SerializeCall

\* deserialize(serialized, allocator) of the spilled cell into a freshly
\* constructed accumulator, which replaces the spilled one.
Deserialize ==
    /\ ~threw
    /\ op.name = "serialize"
    /\ reloads < MaxReloads
    /\ \E garbage \in GarbageOf(cat) :
         LET r == DeserializeOf(cat, FreshOf(cat), op.out.cell, garbage) IN
         /\ acc' = r.acc
         /\ threw' = r.threw
         /\ op' = [name |-> "deserialize", rows |-> <<>>,
                   out |-> [offset |-> r.offset, cellSize |-> op.out.cell.size,
                            tuples |-> r.tuples, failedAt |-> r.failedAt]]
    /\ prev' = acc
    /\ reloads' = reloads + 1
    /\ reads' = 0
    /\ UNCHANGED <<cat, inputs>>

Next ==
    \/ AddValue
    \/ AddValues
    \/ ExtractValues
    \/ Serialize
    \/ Deserialize

Spec == Init /\ [][Next]_vars

(***************************************************************************)
(* Reload of an arbitrary cell.  The spilled cell that comes back may be   *)
(* corrupted: any null index, any declared count, any tuples (ordinal and  *)
(* value), laid out as deserialize reads them.  The hash of a complex      *)
(* tuple is the hash of its bytes.                                         *)
(***************************************************************************)
\* Number of tuples (or fixed-width slots) of a cell that is read back.
MaxTuples == 2
\* Number of rows fed to the accumulator before it reads a cell back.
MaxPreAdds == 2

\* The null index fields of the cells: the sentinel, the ordinals, and a
\* value that is neither.
NullIndexFields == (-2)..MaxTuples

Tuples(c) == [index : 0..MaxTuples, value : ValuesOf(c)]
TupleSeqs(c) == UNION {[1..n -> Tuples(c)] : n \in 0..MaxTuples}

RECURSIVE CellStream(_, _, _, _)
CellStream(c, stream, tuples, i) ==
    IF i > Len(tuples)
    THEN stream
    ELSE LET t == tuples[i]
             s1 == IF c = "scalar"
                   THEN stream
                   ELSE streamAppend(streamAppend(stream, t.index, kSizeOfVector),
                                     Len(t.value), kSizeOfVector)
             s2 == IF c = "complex"
                   THEN streamAppend(s1, HashOf(t.value), kSizeOfHash)
                   ELSE s1
             s3 == streamAppend(s2, t.value,
                                IF c = "scalar" THEN kSizeOfValue ELSE Len(t.value))
         IN CellStream(c, s3, tuples, i + 1)

InputCell(c, nullIndexValue, numValues, tuples) ==
    LET s1 == streamAppend(OutputByteStream, nullIndexValue, kSizeOfVector)
        s2 == streamAppend(s1, numValues, kSizeOfSize)
        s3 == CellStream(c, s2, tuples, 1)
    IN Cell(s3.writes, s3.offset)

\* Rows are fed before the cell is read back.
AddBeforeReload ==
    /\ ~threw
    /\ op.name # "deserialize"
    /\ Len(inputs) < MaxPreAdds
    /\ \E row \in RowsOf(cat) : AddRow(row)

\* deserialize(serialized, allocator) of a cell that may be corrupted.  A
\* fixed-width cell holds as many slots as it declares.
DeserializeInput ==
    /\ ~threw
    /\ op.name # "deserialize"
    /\ \E nullIndexValue \in NullIndexFields :
         \E numValues \in 0..MaxTuples :
           \E tuples \in TupleSeqs(cat) :
             \E garbage \in GarbageOf(cat) :
               LET r == DeserializeOf(
                          cat, acc,
                          InputCell(cat, nullIndexValue, numValues, tuples), garbage)
               IN /\ cat = "scalar" => Len(tuples) = numValues
                  /\ acc' = r.acc
                  /\ threw' = r.threw
                  /\ op' = [name |-> "deserialize", rows |-> <<>>,
                            out |-> [offset |-> r.offset,
                                     cellSize |->
                                        InputCell(cat, nullIndexValue, numValues,
                                                  tuples).size,
                                     tuples |-> r.tuples,
                                     failedAt |-> r.failedAt,
                                     nullIndexValue |-> nullIndexValue,
                                     numValues |-> numValues,
                                     input |-> tuples]]
    /\ prev' = acc
    /\ reloads' = reloads + 1
    /\ reads' = 0
    /\ UNCHANGED <<cat, inputs>>

NextReload ==
    \/ AddBeforeReload
    \/ DeserializeInput

SpecReload == Init /\ [][NextReload]_vars

(***************************************************************************)
(* Repeated reads.  The caller may call extractValues and serialize any    *)
(* number of times and in any order, between additions and reloads.        *)
(***************************************************************************)
\* Number of rows fed to an accumulator that is read repeatedly.
MaxReadAdds == 3
\* Number of extractValues and serialize calls in a row.
MaxReads == 2

AddBetweenReads ==
    /\ ~threw
    /\ Len(inputs) < MaxReadAdds
    /\ \E row \in RowsOf(cat) : AddRow(row)

ExtractValuesAgain ==
    /\ ~threw
    /\ reads < MaxReads
    /\ ExtractValuesCall

SerializeAgain ==
    /\ ~threw
    /\ reads < MaxReads
    /\ SerializeCall

NextRead ==
    \/ AddBetweenReads
    \/ ExtractValuesAgain
    \/ SerializeAgain
    \/ Deserialize

SpecRead == Init /\ [][NextRead]_vars

(***************************************************************************)
(* Vocabulary of the properties.                                           *)
(***************************************************************************)
Base == BaseOf(cat, acc)
PrevBase == BaseOf(cat, prev)

\* The value a key of uniqueValues stands for, by the category's equality.
ContentOf(c, a, key) ==
    CASE c = "scalar" -> key
      [] c = "string" -> viewData(a.strings, key)
      [] c = "complex" -> List_read(a.values, key)

\* The value-to-ordinal mapping of an accumulator, as <<value, ordinal>> pairs.
Mapping(c, a) ==
    {<<ContentOf(c, a, k), BaseOf(c, a).uniqueValues[k]>> :
        k \in DOMAIN BaseOf(c, a).uniqueValues}

Contents(c, a) == {ContentOf(c, a, k) : k \in DOMAIN BaseOf(c, a).uniqueValues}

\* The ordinals in use: those of the map and the null's.
Ordinals(b) == {b.uniqueValues[k] : k \in DOMAIN b.uniqueValues} \cup b.nullIndex

\* The state was reached by additions alone.
FromAdditions == reloads = 0

IsAdd == op.name \in {"addValue", "addValues"}

\* The last operation was addValue of a non-null value already present.
DuplicateAdd ==
    /\ op.name = "addValue"
    /\ ~op.rows[1].isNull
    /\ op.rows[1].value \in Contents(cat, prev)

\* The running serialized-size counter of the category, if it has one.
SizeCounter(c, a) ==
    CASE c = "scalar" -> 0
      [] c = "string" -> a.stringSetBytes
      [] c = "complex" -> a.totalSize

(***************************************************************************)
(* C1. Ordinal completeness: after any sequence of addValue / addValues    *)
(* calls on a fresh accumulator of any category, the ordinals of           *)
(* uniqueValues and nullIndex (if set) are pairwise distinct and are       *)
(* exactly 0 .. size() - 1.                                                *)
(***************************************************************************)
C1_OrdinalCompleteness ==
    FromAdditions =>
        /\ \A k1, k2 \in DOMAIN Base.uniqueValues :
              Base.uniqueValues[k1] = Base.uniqueValues[k2] => k1 = k2
        /\ \A k \in DOMAIN Base.uniqueValues :
              Base.uniqueValues[k] \notin Base.nullIndex
        /\ Ordinals(Base) = 0..(size(Base) - 1)
        /\ size(Base) = mapSize(Base.uniqueValues)
                            + (IF has_value(Base.nullIndex) THEN 1 ELSE 0)

\* Values on both sides of the null, fed with repeats.
C1_Witness ==
    /\ FromAdditions
    /\ Base.nullIndex = {1}
    /\ mapSize(Base.uniqueValues) = 3
    /\ Len(inputs) > size(Base)

(***************************************************************************)
(* C2. Round trip: serialize, then deserialize of the cell into a fresh    *)
(* accumulator, gives the same nullIndex and the same value-to-ordinal     *)
(* mapping, whatever order serialize visited the map in.                   *)
(***************************************************************************)
C2_RoundTrip ==
    op.name = "deserialize" =>
        /\ ~threw
        /\ Base.nullIndex = PrevBase.nullIndex
        /\ Mapping(cat, acc) = Mapping(cat, prev)

\* Scenario C: 5 at ordinal 0, null at 1, 3 at 2.
C2_Witness ==
    /\ op.name = "deserialize"
    /\ cat = "scalar"
    /\ PrevBase.nullIndex = {1}
    /\ Mapping(cat, prev) = {<<5, 0>>, <<3, 2>>}

(***************************************************************************)
(* C3. Duplicate insertion is a no-op: addValue of a non-null value that   *)
(* is already present leaves the whole accumulator as it was: size(),      *)
(* nullIndex, every ordinal, the backing store and the running             *)
(* serialized-size counter.                                                *)
(***************************************************************************)
C3_DuplicateNoOp ==
    DuplicateAdd =>
        /\ ~threw
        /\ size(Base) = size(PrevBase)
        /\ Base.nullIndex = PrevBase.nullIndex
        /\ Mapping(cat, acc) = Mapping(cat, prev)
        /\ SizeCounter(cat, acc) = SizeCounter(cat, prev)
        /\ acc = prev

\* The third add in a row of a value, in an accumulator that holds more
\* than it.
C3_Witness ==
    /\ DuplicateAdd
    /\ Len(inputs) >= 4
    /\ inputs[Len(inputs) - 1] = op.rows[1]
    /\ inputs[Len(inputs) - 2] = op.rows[1]
    /\ size(Base) >= 3

(***************************************************************************)
(* C4. Null singularity: nullIndex is set by the first null only, to the   *)
(* number of distinct non-null values accepted before it; once set it      *)
(* never changes and a later null changes nothing; the extracted output    *)
(* holds exactly one null, at that ordinal.                                *)
(***************************************************************************)
NullPositions == {i \in DOMAIN inputs : inputs[i].isNull}
FirstNull == CHOOSE i \in NullPositions : \A j \in NullPositions : i <= j
ValuesBefore(n) == {inputs[i].value : i \in {j \in 1..(n - 1) : ~inputs[j].isNull}}

\* C4: nullIndex is the number of distinct values fed before the first null;
\* once set it stays; a later null changes nothing; the output holds one
\* null, at that ordinal.
C4_NullSingularity ==
    /\ FromAdditions =>
          Base.nullIndex = IF NullPositions = {}
                           THEN {}
                           ELSE {Cardinality(ValuesBefore(FirstNull))}
    /\ (IsAdd /\ has_value(PrevBase.nullIndex)) =>
          Base.nullIndex = PrevBase.nullIndex
    /\ (op.name = "addValue" /\ op.rows[1].isNull /\ has_value(PrevBase.nullIndex)) =>
          acc = prev
    /\ (op.name = "extractValues" /\ FromAdditions) =>
          LET nulls == {i \in DOMAIN op.out.writes : op.out.writes[i].isNull} IN
          /\ Cardinality(nulls) = Cardinality(Base.nullIndex)
          /\ \A i \in nulls :
                op.out.writes[i].position = op.out.offset + optValue(Base.nullIndex)

\* The output of an accumulator that was fed three nulls after one value.
C4_Witness ==
    /\ op.name = "extractValues"
    /\ FromAdditions
    /\ Cardinality(NullPositions) = 3
    /\ Base.nullIndex = {1}
    /\ size(Base) = 3

(***************************************************************************)
(* C5. First-appearance order: a newly accepted non-null value receives    *)
(* the ordinal size() had just before the add; so an element (a value or   *)
(* the null) that first appears before another has the smaller ordinal.    *)
(* Scalar rows [5, null, 3, 5, null] give 5@0, null@1, 3@2; string rows    *)
(* [abc, xyz, abc, null] give abc@0, xyz@1, null@2.                        *)
(***************************************************************************)
FirstAt(row) == CHOOSE i \in DOMAIN inputs :
                    inputs[i] = row /\ \A j \in DOMAIN inputs : inputs[j] = row => i <= j
Seen == {inputs[i] : i \in DOMAIN inputs}
Present(row) ==
    IF row.isNull THEN has_value(Base.nullIndex) ELSE row.value \in Contents(cat, acc)
OrdinalOf(row) ==
    IF row.isNull
    THEN optValue(Base.nullIndex)
    ELSE Base.uniqueValues[CHOOSE k \in DOMAIN Base.uniqueValues :
                                ContentOf(cat, acc, k) = row.value]
Row(v) == [isNull |-> FALSE, value |-> v]

\* C5: a new value gets the ordinal size() had before the add; elements are
\* ordered by first appearance; scenarios A and B.
C5_FirstAppearanceOrder ==
    /\ (/\ op.name = "addValue"
        /\ ~op.rows[1].isNull
        /\ op.rows[1].value \notin Contents(cat, prev)) =>
           /\ Present(op.rows[1])
           /\ OrdinalOf(op.rows[1]) = size(PrevBase)
           /\ OrdinalOf(op.rows[1]) =
                 mapSize(PrevBase.uniqueValues)
                    + (IF has_value(PrevBase.nullIndex) THEN 1 ELSE 0)
    /\ FromAdditions =>
           /\ \A r \in Seen : Present(r)
           /\ \A r1, r2 \in Seen :
                 FirstAt(r1) < FirstAt(r2) => OrdinalOf(r1) < OrdinalOf(r2)
    /\ (/\ FromAdditions
        /\ cat = "scalar"
        /\ inputs = <<Row(5), NullRow(cat), Row(3), Row(5), NullRow(cat)>>) =>
           /\ size(Base) = 3
           /\ Base.nullIndex = {1}
           /\ Mapping(cat, acc) = {<<5, 0>>, <<3, 2>>}
    /\ (/\ FromAdditions
        /\ cat = "string"
        /\ inputs = <<Row("abc"), Row("xyz"), Row("abc"), NullRow(cat)>>) =>
           /\ size(Base) = 3
           /\ Base.nullIndex = {2}
           /\ Mapping(cat, acc) = {<<"abc", 0>>, <<"xyz", 1>>}

\* Scenario A.
C5_Witness ==
    /\ FromAdditions
    /\ cat = "scalar"
    /\ inputs = <<Row(5), NullRow(cat), Row(3), Row(5), NullRow(cat)>>
    /\ op.name = "addValue"

(***************************************************************************)
(* C6. extractValues(destination, offset), in a state reached by           *)
(* additions, writes each stored value at offset + ordinal, marks          *)
(* offset + nullIndex null when a null was accepted, and returns size();   *)
(* every position of [offset, offset + size()) is written exactly once     *)
(* and no other position is written.                                       *)
(***************************************************************************)
C6_ExtractValues ==
    (op.name = "extractValues" /\ FromAdditions) =>
        LET w == op.out.writes
            off == op.out.offset
            at(p) == {i \in DOMAIN w : w[i].position = p}
        IN /\ op.out.result = size(Base)
           /\ \A pair \in Mapping(cat, acc) :
                 \E i \in DOMAIN w :
                    /\ w[i].position = off + pair[2]
                    /\ ~w[i].isNull
                    /\ w[i].value = pair[1]
           /\ has_value(Base.nullIndex) =>
                 \E i \in DOMAIN w :
                    w[i].position = off + optValue(Base.nullIndex) /\ w[i].isNull
           /\ \A p \in off..(off + size(Base) - 1) : Cardinality(at(p)) = 1
           /\ \A i \in DOMAIN w : w[i].position \in off..(off + size(Base) - 1)

\* Three values and a null in the middle, written from the largest offset.
C6_Witness ==
    /\ op.name = "extractValues"
    /\ FromAdditions
    /\ op.out.offset = MaxOffset
    /\ Base.nullIndex = {1}
    /\ op.out.result = 4

(***************************************************************************)
(* C7. Scalar serialize layout: nullIndex (or -1), then count, then count  *)
(* fixed-width slots: sizeof(int32) + sizeof(size_t) + count * sizeof(T)   *)
(* bytes.  The value with ordinal o goes to slot o, or o - 1 when o is     *)
(* past the null; every slot 0 .. count - 1 is written exactly once, no    *)
(* write leaves the buffer, and the slots are in increasing ordinal order. *)
(***************************************************************************)
SlotOffset(j) == kSizeOfVector + kSizeOfSize + j * kSizeOfValue

\* C7: header, total length, one write per slot 0 .. count - 1, inside the
\* buffer, slots in increasing ordinal order.
C7_ScalarLayout ==
    (op.name = "serialize" /\ cat = "scalar") =>
        LET w == op.out.writes
            count == mapSize(acc.uniqueValues)
            valueWrites == {i \in DOMAIN w : i > 2}
            slotWrites(j) == {i \in valueWrites : w[i].offset = SlotOffset(j)}
            nullBefore(o) == has_value(acc.nullIndex) /\ optValue(acc.nullIndex) < o
        IN /\ ~threw
           /\ op.out.totalBytes = kSizeOfVector + kSizeOfSize + count * kSizeOfValue
           /\ op.out.cell.size = op.out.totalBytes
           /\ w[1] = Write(0, kSizeOfVector,
                           IF has_value(acc.nullIndex)
                           THEN optValue(acc.nullIndex) ELSE -1)
           /\ w[2] = Write(kSizeOfVector, kSizeOfSize, count)
           /\ Cardinality(valueWrites) = count
           /\ \A i \in DOMAIN w : InBounds(w[i], op.out.totalBytes)
           /\ \A k \in DOMAIN acc.uniqueValues :
                 \E i \in valueWrites :
                    /\ w[i].data = k
                    /\ w[i].size = kSizeOfValue
                    /\ w[i].offset =
                          SlotOffset(acc.uniqueValues[k]
                                        - (IF nullBefore(acc.uniqueValues[k]) THEN 1 ELSE 0))
           /\ \A j \in 0..(count - 1) : Cardinality(slotWrites(j)) = 1
           /\ \A j1, j2 \in 0..(count - 1) :
                 j1 < j2 => acc.uniqueValues[op.out.cell.mem[SlotOffset(j1)]]
                                < acc.uniqueValues[op.out.cell.mem[SlotOffset(j2)]]

\* Two values around the null.
C7_Witness ==
    /\ op.name = "serialize"
    /\ cat = "scalar"
    /\ acc.nullIndex = {1}
    /\ mapSize(acc.uniqueValues) = 2

(***************************************************************************)
(* C8. Count check on reload (SpecReload): deserialize of a string or      *)
(* complex accumulator fails whenever, after all tuples were consumed,     *)
(* the number of entries of uniqueValues differs from the declared count,  *)
(* and returns normally only when the two are equal.                       *)
(* As claimed, a tuple repeating a value already inserted always leads to  *)
(* failure: C8_RepeatAlwaysFails.  It does not in the complex case, where  *)
(* the repeated tuple is rolled back and the count check alone decides.    *)
(***************************************************************************)
TuplesConsumed == op.out.failedAt \in {"none", "count"}

\* Some tuple of the input carries a value that is in the map when the
\* tuple is read.
HasRepeat ==
    \E i \in DOMAIN op.out.input :
        \/ op.out.input[i].value \in Contents(cat, prev)
        \/ \E j \in 1..(i - 1) : op.out.input[j].value = op.out.input[i].value

\* The count check itself: after the tuples were consumed, failure exactly
\* when the map size differs from the declared count.
C8_CountChecked ==
    (op.name = "deserialize" /\ cat \in {"string", "complex"}) =>
        /\ TuplesConsumed =>
              (threw <=> mapSize(Base.uniqueValues) # op.out.numValues)
        /\ ~threw => mapSize(Base.uniqueValues) = op.out.numValues

\* C8 as claimed: the count check, and a repeated tuple always leads to
\* failure, in the string and in the complex case.
C8_RepeatAlwaysFails ==
    (op.name = "deserialize" /\ cat \in {"string", "complex"}) =>
        /\ C8_CountChecked
        /\ HasRepeat => threw

\* C8 as amended: the count check; a repeated tuple fails the string
\* deserialize directly; in the complex case it is rolled back and the
\* deserialize fails exactly when the resulting map size differs from the
\* declared count, which it does when the accumulator was fresh and the
\* declared count is the number of tuples.
C8_CountCheckOnReload ==
    (op.name = "deserialize" /\ cat \in {"string", "complex"}) =>
        /\ C8_CountChecked
        /\ (cat = "string" /\ HasRepeat) =>
              threw /\ op.out.failedAt \in {"nullIndex", "unique"}
        /\ (cat = "complex" /\ HasRepeat /\ ~has_value(PrevBase.nullIndex)) =>
              /\ op.out.failedAt \in {"none", "count"}
              /\ Len(acc.values) = mapSize(Base.uniqueValues)
              /\ mapSize(Base.uniqueValues) < mapSize(PrevBase.uniqueValues)
                                                + Len(op.out.input)
              /\ threw <=> mapSize(Base.uniqueValues) # op.out.numValues
              /\ (prev = FreshOf(cat) /\ op.out.numValues = Len(op.out.input)) => threw

\* A complex cell whose second tuple repeats the first and whose declared
\* count is the number of tuples: the count check fails.
C8_Witness ==
    /\ op.name = "deserialize"
    /\ cat = "complex"
    /\ prev = FreshOf(cat)
    /\ Len(op.out.input) = 2
    /\ op.out.input[1].value = op.out.input[2].value
    /\ op.out.numValues = 2
    /\ op.out.failedAt = "count"
    /\ threw

(***************************************************************************)
(* C9. Complex append-then-rollback: after any sequence of additions the   *)
(* content store holds exactly one entry per key of uniqueValues; a        *)
(* duplicate add leaves the store as it was before the add; an add never   *)
(* moves an entry that was stored before it.                               *)
(***************************************************************************)
C9_ComplexRollback ==
    cat = "complex" =>
        /\ FromAdditions =>
              /\ Len(acc.values) = mapSize(acc.base.uniqueValues)
              /\ {k.position : k \in DOMAIN acc.base.uniqueValues}
                    = 1..Len(acc.values)
              /\ \A k \in DOMAIN acc.base.uniqueValues :
                    k.size = Len(acc.values[k.position])
        /\ DuplicateAdd =>
              /\ Len(acc.values) = Len(prev.values)
              /\ acc.values = prev.values
        /\ IsAdd =>
              /\ Len(acc.values) >= Len(prev.values)
              /\ SubSeq(acc.values, 1, Len(prev.values)) = prev.values
              /\ \A k \in DOMAIN prev.base.uniqueValues :
                    /\ k \in DOMAIN acc.base.uniqueValues
                    /\ List_read(acc.values, k) = List_read(prev.values, k)

\* A duplicate of the entry stored first, with others stored after it.
C9_Witness ==
    /\ cat = "complex"
    /\ FromAdditions
    /\ DuplicateAdd
    /\ Len(acc.values) = 3
    /\ op.rows[1].value = acc.values[1]

(***************************************************************************)
(* C10. addValues on an array cell has exactly the effect of addValue on   *)
(* the cell's child rows offset, offset + 1, ..., offset + size - 1, in    *)
(* that order; an empty array changes nothing.                             *)
(***************************************************************************)
RECURSIVE AddEach(_, _, _)
AddEach(c, a, rows) ==
    IF rows = <<>>
    THEN [acc |-> a, threw |-> FALSE]
    ELSE LET r == AddValueOf(c, a, <<Head(rows)>>, 0) IN
         IF r.threw THEN r ELSE AddEach(c, r.acc, Tail(rows))

\* C10: accumulator and failure flag after addValues are those after
\* addValue on each row of the cell in turn.
C10_AddValuesIsAddValueEach ==
    op.name = "addValues" =>
        /\ [acc |-> acc, threw |-> threw] = AddEach(cat, prev, op.rows)
        /\ op.rows = <<>> => acc = prev

\* A cell of a new value and a null, both accepted.
C10_Witness ==
    /\ op.name = "addValues"
    /\ Len(op.rows) = 2
    /\ ~op.rows[1].isNull
    /\ op.rows[2].isNull
    /\ size(Base) = size(PrevBase) + 2
    /\ size(PrevBase) >= 1

(***************************************************************************)
(* C11. String size accounting: in every state of a string accumulator     *)
(* reached by additions, or by deserialize into a fresh instance and       *)
(* additions after it, stringSetBytes is sizeof(int32) + sizeof(size_t)    *)
(* plus, for every stored string, 2 * sizeof(int32) + its length; that is  *)
(* the number of bytes serialize writes; a null add and a duplicate add    *)
(* leave it as it was.                                                     *)
(***************************************************************************)
\* The bytes of the tuples of the stored keys, 'overhead' bytes of fields
\* and the value's bytes each.
RECURSIVE TupleBytes(_, _, _, _)
TupleBytes(c, a, keys, overhead) ==
    IF keys = {}
    THEN 0
    ELSE LET k == CHOOSE x \in keys : TRUE IN
         overhead + Len(ContentOf(c, a, k)) + TupleBytes(c, a, keys \ {k}, overhead)

\* The number of bytes a sequence of writes puts into the buffer.
RECURSIVE BytesWritten(_)
BytesWritten(writes) ==
    IF writes = <<>> THEN 0 ELSE Head(writes).size + BytesWritten(Tail(writes))

NullAdd == op.name = "addValue" /\ op.rows[1].isNull

\* C11: stringSetBytes is the header plus 8 + length per stored string, the
\* number of bytes serialize writes, and null and duplicate adds keep it.
C11_StringSizeAccounting ==
    cat = "string" =>
        /\ acc.stringSetBytes =
              4 + 8 + TupleBytes(cat, acc, DOMAIN acc.base.uniqueValues, 2 * 4)
        /\ op.name = "serialize" =>
              /\ BytesWritten(op.out.writes) = acc.stringSetBytes
              /\ op.out.cell.size = acc.stringSetBytes
              /\ \A i \in DOMAIN op.out.writes :
                    InBounds(op.out.writes[i], op.out.cell.size)
        /\ NullAdd => acc.stringSetBytes = prev.stringSetBytes
        /\ DuplicateAdd => acc.stringSetBytes = prev.stringSetBytes

\* serialize of an accumulator that was read back and then fed a null, an
\* inline string and a string of the store.
C11_Witness ==
    /\ cat = "string"
    /\ op.name = "serialize"
    /\ reloads = 1
    /\ has_value(acc.base.nullIndex)
    /\ mapSize(acc.base.uniqueValues) >= 2
    /\ Len(acc.strings) = 1
    /\ Len(inputs) > size(acc.base)

(***************************************************************************)
(* C12. Complex serialize never trips its bounds check: in every state of  *)
(* a complex accumulator reached by additions (rolled-back duplicates      *)
(* among them), or by deserialize into a fresh instance and additions      *)
(* after it, totalSize is the header size plus, for every stored entry,    *)
(* 2 * sizeof(int32) + sizeof(uint64) + entry.size; so every append of     *)
(* serialize passes offset + size <= totalSize and the stream ends at      *)
(* offset totalSize exactly.                                               *)
(***************************************************************************)
C12_ComplexSerializeInBounds ==
    cat = "complex" =>
        /\ acc.totalSize =
              4 + 8 + TupleBytes(cat, acc, DOMAIN acc.base.uniqueValues, 2 * 4 + 8)
        /\ \A k \in DOMAIN acc.base.uniqueValues :
              k.size = Len(List_read(acc.values, k))
        /\ DuplicateAdd => acc.totalSize = prev.totalSize
        /\ op.name = "serialize" =>
              /\ ~op.out.threw
              /\ ~threw
              /\ Len(op.out.writes) = 2 + 4 * mapSize(acc.base.uniqueValues)
              /\ \A i \in DOMAIN op.out.writes :
                    op.out.writes[i].offset + op.out.writes[i].size <= acc.totalSize
              /\ op.out.offset = acc.totalSize
              /\ BytesWritten(op.out.writes) = acc.totalSize

\* serialize of an accumulator that was read back, holds two entries of
\* the same hash, and rolled a duplicate back.
C12_Witness ==
    /\ cat = "complex"
    /\ op.name = "serialize"
    /\ reloads = 1
    /\ Contents(cat, acc) = {"[1]", "[2]"}
    /\ Len(inputs) >= 3
    /\ inputs[Len(inputs)].value \in {inputs[i].value : i \in 1..(Len(inputs) - 1)}
    /\ ~inputs[Len(inputs)].isNull

(***************************************************************************)
(* C13. Scalar deserialize into a fresh accumulator (SpecReload), given a  *)
(* header with null index k (k = -1, or 0 <= k <= n) and declared count n, *)
(* reads exactly n slots and inserts {value, ordinal} for every ordinal of *)
(* 0 .. n + hasNull - 1 other than k.                                      *)
(* As claimed, |uniqueValues| = n and ordinal completeness hold on return  *)
(* for every content of the slots: C13_AnySlotContent.  They do not when   *)
(* two slots hold the same value: the map keeps the entry of the first.    *)
(***************************************************************************)
\* deserialize of a fixed-width cell with a header the claim covers, into a
\* fresh accumulator.
ScalarReload ==
    /\ op.name = "deserialize"
    /\ cat = "scalar"
    /\ prev = FreshOf(cat)
    /\ \/ op.out.nullIndexValue = -1
       \/ op.out.nullIndexValue \in 0..op.out.numValues

\* The ordinal of slot j (from 0) under null index k.
SlotOrdinal(j, k) == IF k = -1 \/ j < k THEN j ELSE j + 1

\* The ordinals 0 .. n + hasNull - 1 other than the null's.
ValueOrdinals(n, k) == (0..(n + (IF k = -1 THEN 0 ELSE 1) - 1)) \ {k}

SlotsDistinct(slots) ==
    \A i, j \in DOMAIN slots : slots[i].value = slots[j].value => i = j

\* The first slot that holds the value of slot i.
FirstSlot(slots, i) ==
    CHOOSE j \in DOMAIN slots :
        /\ slots[j].value = slots[i].value
        /\ \A h \in DOMAIN slots : slots[h].value = slots[i].value => j <= h

\* C13 as claimed: n slots read, one entry per ordinal other than k,
\* |uniqueValues| = n and ordinal completeness, whatever the slots hold.
C13_AnySlotContent ==
    ScalarReload =>
        /\ ~threw
        /\ op.out.tuples = op.out.numValues
        /\ {acc.uniqueValues[x] : x \in DOMAIN acc.uniqueValues}
              = ValueOrdinals(op.out.numValues, op.out.nullIndexValue)
        /\ mapSize(acc.uniqueValues) = op.out.numValues
        /\ Ordinals(acc) = 0..(size(acc) - 1)

\* C13 as amended: n slots read; every value of the slots is in the map at
\* the ordinal of the first slot that holds it; with pairwise distinct
\* slots |uniqueValues| = n and ordinal completeness holds; with a repeated
\* value deserialize returns normally with |uniqueValues| < n.
C13_ScalarDeserialize ==
    ScalarReload =>
        LET n == op.out.numValues
            k == op.out.nullIndexValue
            slots == op.out.input
        IN /\ ~threw
           /\ op.out.tuples = n
           /\ op.out.offset = 4 + 8 + n * 8
           /\ op.out.offset = op.out.cellSize
           /\ acc.nullIndex = IF k = -1 THEN {} ELSE {k}
           /\ Mapping(cat, acc) =
                 {<<slots[i].value, SlotOrdinal(FirstSlot(slots, i) - 1, k)>> :
                    i \in DOMAIN slots}
           /\ SlotsDistinct(slots) =>
                 /\ mapSize(acc.uniqueValues) = n
                 /\ {acc.uniqueValues[x] : x \in DOMAIN acc.uniqueValues}
                       = ValueOrdinals(n, k)
                 /\ Ordinals(acc) = 0..(size(acc) - 1)
           /\ ~SlotsDistinct(slots) => mapSize(acc.uniqueValues) < n

\* Two distinct slots around the null's ordinal.
C13_Witness ==
    /\ ScalarReload
    /\ op.out.nullIndexValue = 1
    /\ op.out.numValues = 2
    /\ Mapping(cat, acc) = {<<5, 0>>, <<3, 2>>}

(***************************************************************************)
(* C14. Null index set twice fails fast (SpecReload): deserialize, of any  *)
(* category, on an accumulator whose nullIndex is set fails its check      *)
(* before anything is read into the accumulator: nullIndex, uniqueValues   *)
(* and the size counters stay as they were.  On an accumulator without a   *)
(* null, a header null index of -1 leaves nullIndex unset and any other    *)
(* value becomes nullIndex.                                                *)
(***************************************************************************)
C14_NullIndexSetTwice ==
    op.name = "deserialize" =>
        /\ has_value(PrevBase.nullIndex) =>
              /\ threw
              /\ op.out.failedAt = "nullIndex"
              /\ op.out.offset = 0
              /\ op.out.tuples = 0
              /\ Base.nullIndex = PrevBase.nullIndex
              /\ Base.uniqueValues = PrevBase.uniqueValues
              /\ SizeCounter(cat, acc) = SizeCounter(cat, prev)
              /\ acc = prev
        /\ ~has_value(PrevBase.nullIndex) =>
              /\ op.out.failedAt # "nullIndex"
              /\ op.out.offset >= 4 + 8
              /\ Base.nullIndex = IF op.out.nullIndexValue = -1
                                  THEN {}
                                  ELSE {op.out.nullIndexValue}

\* A cell with a null index and tuples, read into an accumulator that
\* holds a value and a null.
C14_Witness ==
    /\ op.name = "deserialize"
    /\ PrevBase.nullIndex = {1}
    /\ mapSize(PrevBase.uniqueValues) = 1
    /\ op.out.nullIndexValue = 0
    /\ Len(op.out.input) = 2
    /\ threw

(***************************************************************************)
(* C15. String store ownership and sharing: in every reachable state of a  *)
(* string accumulator each key of uniqueValues is an inline string or a    *)
(* view of a copy owned by the string store, never a view of the caller's  *)
(* input column or of the deserialize input buffer; the store holds        *)
(* exactly one copy per distinct stored string that is not inline; adding  *)
(* equal content again appends nothing to the store.                       *)
(***************************************************************************)
StoredKeys == {k \in DOMAIN acc.base.uniqueValues : k.owner = "strings"}

\* C15: keys are inline or views of the store; one copy per distinct
\* stored string that is not inline; a duplicate add appends nothing.
C15_StringStoreOwnership ==
    cat = "string" =>
        /\ \A k \in DOMAIN acc.base.uniqueValues :
              /\ k.owner \in {"inline", "strings"}
              /\ k.owner # "input"
              /\ k.owner = "inline" <=> k.size <= 12
              /\ k.owner = "strings" =>
                    /\ k.pos \in 1..Len(acc.strings)
                    /\ k.size = Len(acc.strings[k.pos])
        /\ Len(acc.strings) = Cardinality(StoredKeys)
        /\ {k.pos : k \in StoredKeys} = 1..Len(acc.strings)
        /\ \A i, j \in DOMAIN acc.strings : acc.strings[i] = acc.strings[j] => i = j
        /\ {acc.strings[i] : i \in DOMAIN acc.strings}
              = {v \in Contents(cat, acc) : Len(v) > 12}
        /\ DuplicateAdd => acc.strings = prev.strings
        /\ IsAdd =>
              /\ Len(acc.strings) >= Len(prev.strings)
              /\ SubSeq(acc.strings, 1, Len(prev.strings)) = prev.strings

\* After a reload, a second add of a string of the store, which holds two
\* strings beside an inline key.
C15_Witness ==
    /\ cat = "string"
    /\ reloads = 1
    /\ DuplicateAdd
    /\ Len(op.rows[1].value) > 12
    /\ Len(acc.strings) = 2
    /\ mapSize(acc.base.uniqueValues) = 3

(***************************************************************************)
(* C16. Reload loop termination: on the cell serialize produced from a     *)
(* reachable string or complex accumulator that holds n stored values,     *)
(* the tuple loop of deserialize ends after exactly n tuples, with the     *)
(* stream offset equal to the serialized size, and the count check         *)
(* passes.                                                                 *)
(***************************************************************************)
C16_ReloadLoopTermination ==
    (op.name = "deserialize" /\ cat \in {"string", "complex"}) =>
        /\ op.out.tuples = mapSize(PrevBase.uniqueValues)
        /\ op.out.cellSize = SizeCounter(cat, prev)
        /\ op.out.offset = op.out.cellSize
        /\ ~(op.out.offset > op.out.cellSize)
        /\ op.out.failedAt = "none"
        /\ ~threw
        /\ mapSize(Base.uniqueValues) = mapSize(PrevBase.uniqueValues)

\* The cell of a string accumulator with a null, an inline string and two
\* strings of the store.
C16_Witness ==
    /\ op.name = "deserialize"
    /\ cat = "string"
    /\ op.out.tuples = 3
    /\ has_value(PrevBase.nullIndex)
    /\ Len(prev.strings) = 2
    /\ op.out.offset = 4 + 8 + 3 * 8 + 3 + 20 + 19

(***************************************************************************)
(* C17. Additions after reload: after deserialize of a serialized cell     *)
(* into a fresh accumulator, of any category, every further addValue and   *)
(* addValues keeps ordinal completeness: a value or a null that is present *)
(* is a no-op and keeps its ordinal, a new value or a first null gets the  *)
(* next ordinal size(), and the ordinals are again 0 .. size() - 1.        *)
(***************************************************************************)
AfterReload == reloads > 0

\* C17: after a reload, ordinal completeness in every state; adds keep the
\* ordinals there are and give size() to what is new.
C17_AdditionsAfterReload ==
    AfterReload =>
        /\ ~threw
        /\ \A k1, k2 \in DOMAIN Base.uniqueValues :
              Base.uniqueValues[k1] = Base.uniqueValues[k2] => k1 = k2
        /\ \A k \in DOMAIN Base.uniqueValues :
              Base.uniqueValues[k] \notin Base.nullIndex
        /\ Ordinals(Base) = 0..(size(Base) - 1)
        /\ IsAdd =>
              /\ Mapping(cat, prev) \subseteq Mapping(cat, acc)
              /\ has_value(PrevBase.nullIndex) => Base.nullIndex = PrevBase.nullIndex
              /\ Ordinals(Base) \ Ordinals(PrevBase)
                    = size(PrevBase)..(size(Base) - 1)
        /\ (DuplicateAdd \/ (NullAdd /\ has_value(PrevBase.nullIndex))) =>
              acc = prev
        /\ (/\ op.name = "addValue"
            /\ ~op.rows[1].isNull
            /\ op.rows[1].value \notin Contents(cat, prev)) =>
              /\ <<op.rows[1].value, size(PrevBase)>> \in Mapping(cat, acc)
              /\ size(Base) = size(PrevBase) + 1
        /\ (NullAdd /\ ~has_value(PrevBase.nullIndex)) =>
              /\ Base.nullIndex = {size(PrevBase)}
              /\ size(Base) = size(PrevBase) + 1

\* A new value added to a reloaded accumulator that holds values on both
\* sides of its null.
C17_Witness ==
    /\ AfterReload
    /\ op.name = "addValue"
    /\ ~op.rows[1].isNull
    /\ op.rows[1].value \notin Contents(cat, prev)
    /\ PrevBase.nullIndex = {1}
    /\ size(PrevBase) = 3
    /\ size(Base) = 4

(***************************************************************************)
(* C18. serialize and extractValues are read-only (SpecRead): called in a  *)
(* reachable state, any number of times and in any order, they leave       *)
(* nullIndex, uniqueValues (keys and ordinals), the backing store and the  *)
(* size counter as they were; so two serialize calls in a row describe     *)
(* the same nullIndex, count and value-to-ordinal mapping.                 *)
(***************************************************************************)
\* What a serialized cell describes: its null index field, its count
\* field, and the value-to-ordinal mapping a reader gets from it.
CellDescription(c, cell) ==
    LET r == DeserializeOf(c, FreshOf(c), cell, CHOOSE g \in GarbageOf(c) : TRUE)
    IN [nullIndex |-> cell.mem[0],
        count |-> cell.mem[kSizeOfVector],
        mapping |-> Mapping(c, r.acc)]

\* A step that is a call of extractValues or serialize.
ReadStep == reads' = reads + 1

ReadOnlyStep ==
    /\ ReadStep =>
          /\ op'.name \in {"extractValues", "serialize"}
          /\ BaseOf(cat, acc').nullIndex = BaseOf(cat, acc).nullIndex
          /\ BaseOf(cat, acc').uniqueValues = BaseOf(cat, acc).uniqueValues
          /\ Mapping(cat, acc') = Mapping(cat, acc)
          /\ SizeCounter(cat, acc') = SizeCounter(cat, acc)
          /\ cat = "string" => acc'.strings = acc.strings
          /\ cat = "complex" => acc'.values = acc.values
          /\ acc' = acc
          /\ threw' = threw
    /\ (ReadStep /\ op.name = "serialize" /\ op'.name = "serialize") =>
          /\ CellDescription(cat, op'.out.cell) = CellDescription(cat, op.out.cell)
          /\ CellDescription(cat, op'.out.cell) =
                [nullIndex |-> nullIndexSerializationValue(BaseOf(cat, acc)),
                 count |-> mapSize(BaseOf(cat, acc).uniqueValues),
                 mapping |-> Mapping(cat, acc)]

\* C18: every extractValues and serialize call leaves the accumulator as it
\* was, and a serialize call right after a serialize call describes the
\* same null index, count and mapping.
C18_ReadOnly == [][ReadOnlyStep]_vars

\* The second read in a row, a serialize, of a reloaded accumulator with a
\* null, an inline string and a string of the store.
C18_Witness ==
    /\ cat = "string"
    /\ op.name = "serialize"
    /\ reads = 2
    /\ reloads = 1
    /\ has_value(acc.base.nullIndex)
    /\ mapSize(acc.base.uniqueValues) = 2
    /\ Len(acc.strings) = 1

====
